---- MODULE Spec2Model ----
(***************************************************************************)
(* amibackup (README.md, the v0.14 amibackup.go listing) as a state         *)
(* machine: handleOptions, main with its watchdog and its backup tasks,     *)
(* and the retention-window purge of purgeAMIs.  One step is one remote     *)
(* API call or one loop head.  Time is counted in whole units; an image     *)
(* timestamp and a window boundary may coincide.                            *)
(***************************************************************************)
EXTENDS Integers, Sequences, FiniteSets, TLC

(* ------------------------------ bounds -------------------------------- *)

\* Largest "time ago" a purge window may name; the invocation instant is
\* placed at this distance from time 0 so that every boundary is >= 0.
MaxAgo == 3

\* Largest PURGE_INTERVAL of a window.
MaxInterval == 3

\* The command lines considered give no, one or two -p windows.
WindowCounts == {0, 1, 2}

\* Largest --timeout, in time units.
MaxTimeout == 2

\* Largest number of polls of one waitForAMI call that fail in a row.
MaxPollFailures == 2

(* --------------------------- the environment -------------------------- *)

\* The images that carry the hostname tag in the purged region.
ImageIds == {"ami-a", "ami-b", "ami-c"}

\* image.BlockDeviceMappings: the EBS snapshots behind each image (an image
\* may be backed by one volume, by several, or by none with an Ebs entry).
BlockDevices(id) ==
    CASE id = "ami-a" -> {"snap-a"}
      [] id = "ami-b" -> {"snap-b1", "snap-b2"}
      [] OTHER        -> {}

\* The "instance" tag of each image: the instance it is a backup of.  Two
\* instances carry the name tag the images are listed by.
InstanceTag(id) == IF id = "ami-b" THEN "i-2" ELSE "i-1"

\* The characters of an image id.
IdChars(id) == <<"a", "m", "i", "-">> \o
    (CASE id = "ami-a"  -> <<"a">>
       [] id = "ami-b"  -> <<"b">>
       [] id = "ami-c"  -> <<"c">>
       [] id = "ami-1"  -> <<"1">>
       [] id = "ami-2"  -> <<"2">>
       [] id = "ami-3"  -> <<"3">>
       [] id = "ami-1c" -> <<"1", "c">>
       [] id = "ami-2c" -> <<"2", "c">>
       [] id = "ami-3c" -> <<"3", "c">>
       [] OTHER         -> <<"0">>)

\* The description EC2 writes on the snapshots CreateImage makes ("Created
\* by CreateImage(...) for ami-... from vol-...") and on those CopyImage
\* makes ("Copied for DestinationAmi ami-... from SourceAmi ami-... ...").
CreatedFor(id) == <<"f", "o", "r", " ">> \o IdChars(id) \o <<" ", "v", "1">>
CopiedFor(id, from) == <<"f", "o", "r", " ">> \o IdChars(id) \o <<" ">> \o IdChars(from)

\* snapshot.Description, character by character.  The snapshot of an image
\* registered from a volume backup carries whatever its owner wrote.
Description(snap) ==
    CASE snap = "snap-a"  -> CreatedFor("ami-a")
      [] snap = "snap-b1" -> CopiedFor("ami-b", "ami-a")
      [] snap = "snap-1"  -> CreatedFor("ami-1")
      [] snap = "snap-2"  -> CreatedFor("ami-2")
      [] snap = "snap-3"  -> CreatedFor("ami-3")
      [] snap = "snap-1c" -> CopiedFor("ami-1c", "ami-1")
      [] snap = "snap-2c" -> CopiedFor("ami-2c", "ami-2")
      [] snap = "snap-3c" -> CopiedFor("ami-3c", "ami-3")
      [] OTHER            -> <<"n", "i", "g", "h", "t", "l", "y">>

\* time.Now() of the invocation.
Now == MaxAgo

(* --------------------- strconv / fmt conversions ---------------------- *)

DigitChars == <<"0", "1", "2", "3", "4", "5", "6", "7", "8", "9">>

IsDigit(ch) == \E i \in 1..Len(DigitChars) : DigitChars[i] = ch

DigitVal(ch) == (CHOOSE i \in 1..Len(DigitChars) : DigitChars[i] = ch) - 1

RECURSIVE DigitsValue(_)
DigitsValue(s) ==
    IF s = <<>> THEN 0
    ELSE DigitsValue(SubSeq(s, 1, Len(s) - 1)) * 10 + DigitVal(s[Len(s)])

\* ParseInt with every non-digit character skipped instead of rejected.
ParseIntLenient(s) ==
    LET digits == SelectSeq(s, IsDigit)
    IN  IF digits = <<>> THEN [err |-> TRUE, val |-> 0]
        ELSE [err |-> FALSE, val |-> DigitsValue(digits)]

\* strconv.ParseInt(s, 10, 64): an optional sign, then one or more digits.
ParseInt(s) ==
    LET signed == s # <<>> /\ s[1] \in {"+", "-"}
        body   == IF signed THEN Tail(s) ELSE s
    IN  IF body = <<>> \/ \E i \in 1..Len(body) : ~IsDigit(body[i])
        THEN [err |-> TRUE, val |-> 0]
        ELSE [err |-> FALSE,
              val |-> IF signed /\ s[1] = "-" THEN 0 - DigitsValue(body)
                      ELSE DigitsValue(body)]

\* fmt.Sprintf("%d", n) for n >= 0, the way timeSecs is written.
RECURSIVE FormatInt(_)
FormatInt(n) ==
    IF n < 10 THEN <<DigitChars[n + 1]>>
    ELSE Append(FormatInt(n \div 10), DigitChars[(n % 10) + 1])

\* The class \w of regexp: letters, digits and the underscore.
WordChars ==
    {"a", "b", "c", "d", "e", "f", "g", "h", "i", "j", "k", "l", "m",
     "n", "o", "p", "q", "r", "s", "t", "u", "v", "w", "x", "y", "z",
     "A", "B", "C", "D", "E", "F", "G", "H", "I", "J", "K", "L", "M",
     "N", "O", "P", "Q", "R", "S", "T", "U", "V", "W", "X", "Y", "Z",
     "0", "1", "2", "3", "4", "5", "6", "7", "8", "9", "_"}

\* s has "ami-" at position k.
AmiAt(s, k) == k + 3 <= Len(s) /\ SubSeq(s, k, k + 3) = <<"a", "m", "i", "-">>

\* The match taken from the last "ami-" of s instead of the first.
FindLastSubmatch(s) ==
    IF \A k \in 1..Len(s) : ~AmiAt(s, k) THEN <<>>
    ELSE LET k == CHOOSE j \in 1..Len(s) : AmiAt(s, j) /\ \A l \in (j + 1)..Len(s) : ~AmiAt(s, l)
             e == CHOOSE j \in (k + 3)..Len(s) :
                      /\ \A l \in (k + 4)..j : s[l] \in WordChars
                      /\ (j = Len(s) \/ s[j + 1] \notin WordChars)
         IN  SubSeq(s, k, e)

\* regexp `ami-\w*`, FindStringSubmatch(s)[0]: the leftmost "ami-" with the
\* longest run of word characters after it; <<>> when s has no "ami-".
FindStringSubmatch(s) ==
    IF \A k \in 1..Len(s) : ~AmiAt(s, k) THEN <<>>
    ELSE LET k == CHOOSE j \in 1..Len(s) : AmiAt(s, j) /\ \A l \in 1..(j - 1) : ~AmiAt(s, l)
             e == CHOOSE j \in (k + 3)..Len(s) :
                      /\ \A l \in (k + 4)..j : s[l] \in WordChars
                      /\ (j = Len(s) \/ s[j + 1] \notin WordChars)
         IN  SubSeq(s, k, e)

\* Values of the "timestamp" tag of a listed image: none, corrupt, or the
\* seconds written by a previous backup.
CorruptTags == {<<"2", "x">>}
TagValues == {<<>>} \cup CorruptTags \cup {FormatInt(t) : t \in 0..Now}

\* Image ids are opaque to the window walk of purgeAMIs (they are map keys,
\* compared for equality only), so one listing stands for its renamings: the
\* one whose tags do not decrease along ImageSeq.  The order in which the
\* images are visited is chosen separately, at each range over the map.
ImageSeq == <<"ami-a", "ami-b", "ami-c">>
TagSeq == <<<<>>, <<"2", "x">>>> \o [t \in 1..(Now + 1) |-> FormatInt(t - 1)]
TagRank(tag) == CHOOSE i \in 1..Len(TagSeq) : TagSeq[i] = tag
Canonical(t) ==
    \A i \in 1..(Len(ImageSeq) - 1) : TagRank(t[ImageSeq[i]]) <= TagRank(t[ImageSeq[i + 1]])

(* ------------------------------ windows ------------------------------- *)

\* One -p argument after daysToHours / time.ParseDuration: three durations,
\* PURGE_START (ago) nearer to now than PURGE_END (ago).
PurgeArgs ==
    {a \in [interval : 1..MaxInterval, startAgo : 0..MaxAgo, endAgo : 0..MaxAgo] :
        a.startAgo < a.endAgo}

\* handleOptions: PURGE_START (ago) gives window.stop, PURGE_END gives start.
newWindow(a) ==
    [interval |-> a.interval, start |-> Now - a.endAgo, stop |-> Now - a.startAgo]

handleOptions(args) == [i \in 1..Len(args) |-> newWindow(args[i])]

\* The slice walk of one window.
\* cursorEnd without the clamp to window.stop.
CursorEndUnclamped(cursor, window) == cursor + window.interval

CursorEnd(cursor, window) ==
    IF cursor + window.interval > window.stop THEN window.stop
    ELSE cursor + window.interval

\* Membership with both comparisons inclusive.
InSliceClosed(when, cursor, cursorEnd) == when >= cursor /\ when <= cursorEnd

\* when.After(cursor) && when.Before(cursorEnd)
InSlice(when, cursor, cursorEnd) == when > cursor /\ when < cursorEnd

\* The scan of "for id, when := range images" in iteration order `order`:
\* the first image strictly older than everything seen so far.
RECURSIVE OldestScan(_, _, _, _, _)
OldestScan(order, times, i, bestId, bestTime) ==
    IF i > Len(order) THEN bestId
    ELSE IF times[order[i]] < bestTime
         THEN OldestScan(order, times, i + 1, order[i], times[order[i]])
         ELSE OldestScan(order, times, i + 1, bestId, bestTime)

\* The scan with the comparison turned around (keeps the newest).
RECURSIVE NewestScan(_, _, _, _, _)
NewestScan(order, times, i, bestId, bestTime) ==
    IF i > Len(order) THEN bestId
    ELSE IF times[order[i]] > bestTime
         THEN NewestScan(order, times, i + 1, order[i], times[order[i]])
         ELSE NewestScan(order, times, i + 1, bestId, bestTime)

OldestImageNewest(order, times) == NewestScan(order, times, 1, "", 0 - 1)

\* oldestImage, starting from oldestImageTime := time.Now().
OldestImage(order, times) == OldestScan(order, times, 1, "", Now)

\* The orders in which a range over a map with key set S may visit it.
Orderings(S) ==
    {o \in [1..Cardinality(S) -> S] : \A i, j \in 1..Cardinality(S) : o[i] = o[j] => i = j}

(* ------------------------------- state -------------------------------- *)

VARIABLES
    dryRun,                 \* c.dryRun
    windows,                \* c.windows
    tags,                   \* EC2: the timestamp tag of each image
    registered,             \* EC2: the images still registered
    snapshots,              \* EC2: the snapshots that still exist
    pc,                     \* position in main / purgeAMIs
    images,                 \* purgeAMIs: id -> backup time
    w,                      \* index of the window being walked
    cursor,                 \* start of the slice being walked
    imagesInThisInterval,   \* ids of the slice, in iteration order
    oldestImage,            \* the id kept in this slice
    idx,                    \* position in imagesInThisInterval
    snaps,                  \* snapshots of the image being purged, not yet visited
    calls,                  \* the remote calls issued so far
    logs,                   \* the log lines written so far
    err,                    \* what purgeAMIs returned
    run,                    \* which evaluation this is: "first", "same", "residue", "real"
    firstRun,               \* what the first evaluation selected and what it returned
    arguments,              \* the command line as docopt hands it to handleOptions
    cfg,                    \* c, the Config: timeout, purgeonly, encrypted, kmsKeyId, regions
    nameTag,                \* main: index of instanceNameTag in c.instanceNameTags
    region,                 \* the region main is purging: "source" or "dest"
    instances,              \* EC2: the instances that carry the Name tag
    instanceset,            \* main: the instances findInstances returned
    started,                \* main: i, the goroutines started so far
    joined,                 \* main: the values received from done so far
    task,                   \* one record per started goroutine
    elapsed,                \* time since the watchdog goroutine went to sleep
    exitCode                \* -1 while the process runs, then its exit status

vars == <<dryRun, windows, tags, registered, snapshots, pc, images, w, cursor,
          imagesInThisInterval, oldestImage, idx, snaps, calls, logs, err, run, firstRun,
          arguments, cfg, nameTag, region, instances, instanceset, started, joined, task, elapsed,
          exitCode>>

config == <<dryRun, windows, tags>>
ec2 == <<registered, snapshots>>
slice == <<imagesInThisInterval, oldestImage, idx>>
rerun == <<run, firstRun>>
options == <<arguments, cfg>>
orchestrator == <<nameTag, region, instances, instanceset, started, joined, task>>
process == <<elapsed, exitCode>>

\* instanceNameTag of the loop of main that is running.
InstanceNameTag ==
    IF nameTag \in 1..Len(cfg.instanceNameTags) THEN cfg.instanceNameTags[nameTag] ELSE ""

\* A remote call of main or purgeAMIs and a log line, with the place they
\* were issued at.
Call(op, id, ok) ==
    [op |-> op, id |-> id, ok |-> ok, w |-> w, cursor |-> cursor,
     tag |-> InstanceNameTag, region |-> region]
Log(msg, id) ==
    [msg |-> msg, id |-> id, w |-> w, cursor |-> cursor,
     tag |-> InstanceNameTag, region |-> region]

\* The Config of a run for one name tag, with the usage defaults for the
\* regions, no key and the longest timeout.
DefaultConfig ==
    [timeout |-> MaxTimeout, purgeonly |-> FALSE, encrypted |-> FALSE, kmsKeyId |-> <<>>,
     sourceRegion |-> "us-east-1", destRegion |-> "us-west-1",
     instanceNameTags |-> <<"web">>]

\* main before its first statement after handleOptions: nothing looked up,
\* no goroutine started, the watchdog just gone to sleep.
MainEntry ==
    /\ nameTag = 1
    /\ region = "source"
    /\ instanceset = {}
    /\ started = 0
    /\ joined = 0
    /\ task = [i \in {} |-> 0]
    /\ elapsed = 0
    /\ exitCode = 0 - 1

\* purgeAMIs not yet called.
PurgeEntry ==
    /\ images = [id \in {} |-> 0]
    /\ w = 0
    /\ cursor = 0
    /\ imagesInThisInterval = <<>>
    /\ oldestImage = ""
    /\ idx = 0
    /\ snaps = {}
    /\ calls = <<>>
    /\ logs = <<>>
    /\ err = "none"
    /\ run = "first"
    /\ firstRun = [selected |-> {}, err |-> "none"]

IssuedIds(op) == {calls[i].id : i \in {j \in 1..Len(calls) : calls[j].op = op}}
LoggedIds(msg) == {logs[i].id : i \in {j \in 1..Len(logs) : logs[j].msg = msg}}

Init ==
    /\ dryRun \in BOOLEAN
    /\ \E n \in WindowCounts : \E args \in [1..n -> PurgeArgs] :
           windows = handleOptions(args)
    /\ tags \in {t \in [ImageIds -> TagValues] : Canonical(t)}
    /\ registered = ImageIds
    /\ snapshots = UNION {BlockDevices(id) : id \in ImageIds}
    /\ pc = "main"
    /\ PurgeEntry
    /\ arguments = <<>>
    /\ cfg = DefaultConfig
    /\ instances = {}
    /\ MainEntry

(* ------------------------------ main ---------------------------------- *)

\* A main that starts the backups first and purges once they have all been
\* joined.
MainPurgeAfterJoin ==
    /\ \/ /\ pc = "main"
          /\ pc' = "purgeonly"
       \/ /\ pc = "join"
          /\ joined = Cardinality(instanceset)
          /\ Len(windows) > 0
          /\ \A k \in 1..Len(calls) : calls[k].op # "DescribeImages"
          /\ pc' = "DescribeImages"
    /\ UNCHANGED <<config, ec2, images, w, cursor, slice, snaps, calls, logs, err, rerun>>
    /\ UNCHANGED <<options, orchestrator, process>>

\* main: "if len(c.windows) > 0 { ... purgeAMIs(...) }".
MainPurge ==
    /\ pc = "main"
    /\ pc' = IF Len(windows) > 0 THEN "DescribeImages" ELSE "return"
    /\ UNCHANGED <<config, ec2, images, w, cursor, slice, snaps, calls, logs, err, rerun>>
    /\ UNCHANGED <<options, orchestrator, process>>

(* ---------------------------- purgeAMIs ------------------------------- *)

\* The inventory built from a listing: images without a timestamp tag, or
\* with one that does not parse, are skipped.
Managed(listed) == {id \in listed : Len(tags[id]) >= 1 /\ ~ParseInt(tags[id]).err}

Inventory(listed) == [id \in Managed(listed) |-> ParseInt(tags[id]).val]

\* awsec2.DescribeImages with the hostname filter, then the inventory loop.
DescribeImages ==
    /\ pc = "DescribeImages"
    /\ \E ok \in BOOLEAN :
        /\ calls' = Append(calls, Call("DescribeImages", "", ok))
        /\ IF ok
           THEN /\ images' = Inventory(registered)
                /\ w' = 1
                /\ pc' = "window"
                /\ err' = err
           ELSE /\ err' = "EC2 API Images failed"
                /\ pc' = "return"
                /\ UNCHANGED <<images, w>>
    /\ UNCHANGED <<config, ec2, cursor, slice, snaps, logs, rerun>>
    /\ UNCHANGED <<options, orchestrator, process>>

\* "for _, window := range c.windows"
WindowHead ==
    /\ pc = "window"
    /\ IF w > Len(windows)
       THEN /\ pc' = "return"
            /\ cursor' = cursor
       ELSE /\ cursor' = windows[w].start
            /\ pc' = "slice"
    /\ UNCHANGED <<config, ec2, images, w, slice, snaps, calls, logs, err, rerun>>
    /\ UNCHANGED <<options, orchestrator, process>>

\* The ids the range over images puts into imagesInThisInterval.
SliceMembers(c, window) ==
    {id \in DOMAIN images : InSlice(images[id], c, CursorEnd(c, window))}

\* A slice whose images compete only with the images of the same instance.
HasSurplusOfOneInstance(members) ==
    \E k, l \in 1..Len(members) : k # l /\ InstanceTag(members[k]) = InstanceTag(members[l])

\* "len(imagesInThisInterval) > 1"
HasSurplus(members) == Len(members) > 1

\* "for cursor := window.start; cursor.Before(window.stop); cursor = cursor.Add(interval)"
\* with the collection of the slice's images in map iteration order.
SliceHead ==
    /\ pc = "slice"
    /\ IF ~(cursor < windows[w].stop)
       THEN /\ w' = w + 1
            /\ pc' = "window"
            /\ UNCHANGED <<cursor, slice>>
       ELSE \E order \in Orderings(SliceMembers(cursor, windows[w])) :
            /\ imagesInThisInterval' = order
            /\ oldestImage' = OldestImage(order, images)
            /\ w' = w
            /\ IF HasSurplus(order)
               THEN /\ idx' = 1
                    /\ pc' = "item"
                    /\ cursor' = cursor
               ELSE /\ idx' = 0
                    /\ pc' = "slice"
                    /\ cursor' = cursor + windows[w].interval
    /\ UNCHANGED <<config, ec2, images, snaps, calls, logs, err, rerun>>
    /\ UNCHANGED <<options, orchestrator, process>>

\* "for _, id := range imagesInThisInterval { if id == oldestImage { continue } ..."
Item ==
    /\ pc = "item"
    /\ IF idx > Len(imagesInThisInterval)
       THEN /\ cursor' = cursor + windows[w].interval
            /\ pc' = "slice"
            /\ UNCHANGED <<idx, logs>>
       ELSE IF imagesInThisInterval[idx] = oldestImage
            THEN /\ logs' = Append(logs, Log("Keeping oldest AMI", imagesInThisInterval[idx]))
                 /\ idx' = idx + 1
                 /\ UNCHANGED <<pc, cursor>>
            ELSE /\ pc' = "findSnapshots"
                 /\ UNCHANGED <<idx, cursor, logs>>
    /\ UNCHANGED <<config, ec2, images, w, imagesInThisInterval, oldestImage, snaps,
                   calls, err, rerun>>
    /\ UNCHANGED <<options, orchestrator, process>>

\* findSnapshots: DescribeImages of one id, then its block device mappings.
FindSnapshots ==
    /\ pc = "findSnapshots"
    /\ LET id == imagesInThisInterval[idx] IN
       \E ok \in BOOLEAN :
        /\ calls' = Append(calls, Call("DescribeImage", id, ok))
        /\ IF ok
           THEN /\ snaps' = IF id \in registered THEN BlockDevices(id) ELSE {}
                /\ pc' = "deregister"
                /\ err' = err
           ELSE /\ err' = "EC2 API findSnapshots failed"
                /\ pc' = "return"
                /\ snaps' = {}
    /\ UNCHANGED <<config, ec2, images, w, cursor, slice, logs, rerun>>
    /\ UNCHANGED <<options, orchestrator, process>>

\* The guard with the dry-run test dropped.
MutatingAlways == TRUE

\* "if !c.dryRun" in front of DeregisterImage and of DeleteSnapshot.
Mutating == ~dryRun

\* A failed DeregisterImage that is logged and skipped ("continue").
DeregisterFailedContinue ==
    /\ err' = err
    /\ pc' = "item"
    /\ idx' = idx + 1

\* A failed DeregisterImage after which the snapshots are deleted all the same.
DeregisterFailedDeletes ==
    /\ err' = err
    /\ pc' = "deleteSnapshots"
    /\ idx' = idx

\* "if err != nil { return fmt.Errorf("EC2 API DeregisterImage failed ...") }"
DeregisterFailed ==
    /\ err' = "EC2 API DeregisterImage failed"
    /\ pc' = "return"
    /\ idx' = idx

\* "if !c.dryRun { DeregisterImage } else { log DRYRUN }"
DeregisterImage ==
    /\ pc = "deregister"
    /\ LET id == imagesInThisInterval[idx] IN
       IF Mutating
       THEN \E ok \in BOOLEAN :
            /\ calls' = Append(calls, Call("DeregisterImage", id, ok))
            /\ IF ok
               THEN /\ registered' = registered \ {id}
                    /\ pc' = "deleteSnapshots"
                    /\ UNCHANGED <<err, idx>>
               ELSE /\ DeregisterFailed
                    /\ UNCHANGED registered
            /\ logs' = logs
       ELSE /\ logs' = Append(logs, Log("DRYRUN: would have deregistered image", id))
            /\ pc' = "deleteSnapshots"
            /\ UNCHANGED <<registered, calls, err, idx>>
    /\ UNCHANGED <<config, snapshots, images, w, cursor, imagesInThisInterval,
                   oldestImage, snaps, rerun>>
    /\ UNCHANGED <<options, orchestrator, process>>

\* "for snap, _ := range snaps { ... }" and the closing log line of the item.
DeleteSnapshots ==
    /\ pc = "deleteSnapshots"
    /\ LET id == imagesInThisInterval[idx] IN
       IF snaps = {}
       THEN /\ logs' = Append(logs, Log(IF Mutating THEN "Purged old AMI"
                                        ELSE "DRYRUN: would have purged old AMI", id))
            /\ idx' = idx + 1
            /\ pc' = "item"
            /\ UNCHANGED <<snapshots, snaps, calls, err>>
       ELSE \E snap \in snaps :
            IF Mutating
            THEN \E ok \in BOOLEAN :
                 /\ calls' = Append(calls, Call("DeleteSnapshot", snap, ok))
                 /\ IF ok
                    THEN /\ snapshots' = snapshots \ {snap}
                         /\ snaps' = snaps \ {snap}
                         /\ UNCHANGED <<pc, err>>
                    ELSE /\ err' = "EC2 API DeleteSnapshot failed"
                         /\ pc' = "return"
                         /\ UNCHANGED <<snapshots, snaps>>
                 /\ UNCHANGED <<idx, logs>>
            ELSE /\ logs' = Append(logs, Log("DRYRUN: would have deleted snapshot", snap))
                 /\ snaps' = snaps \ {snap}
                 /\ UNCHANGED <<snapshots, calls, err, pc, idx>>
    /\ UNCHANGED <<config, registered, images, w, cursor, imagesInThisInterval,
                   oldestImage, rerun>>
    /\ UNCHANGED <<options, orchestrator, process>>

Next ==
    \/ MainPurge
    \/ DescribeImages
    \/ WindowHead
    \/ SliceHead
    \/ Item
    \/ FindSnapshots
    \/ DeregisterImage
    \/ DeleteSnapshots

Spec == Init /\ [][Next]_vars

(* ------------------------- a second evaluation ------------------------ *)

\* The images an evaluation selected for deletion: deregistered, or logged
\* as "would have deregistered" by a dry run.
Selected ==
    IssuedIds("DeregisterImage") \cup LoggedIds("DRYRUN: would have deregistered image")

Restart ==
    /\ firstRun' = [selected |-> Selected, err |-> err]
    /\ pc' = "main"
    /\ images' = [id \in {} |-> 0]
    /\ w' = 0
    /\ cursor' = 0
    /\ imagesInThisInterval' = <<>>
    /\ oldestImage' = ""
    /\ idx' = 0
    /\ snaps' = {}
    /\ calls' = <<>>
    /\ logs' = <<>>
    /\ err' = "none"
    /\ UNCHANGED config
    /\ UNCHANGED <<options, orchestrator, process>>

\* The same command is run again on the same inventory (the region as it
\* was before the first run).
RerunSame ==
    /\ pc = "return"
    /\ run = "first"
    /\ err = "none"
    /\ run' = "same"
    /\ registered' = ImageIds
    /\ snapshots' = UNION {BlockDevices(id) : id \in ImageIds}
    /\ Restart

\* The same windows are evaluated again on what a completed purge left.
RerunResidue ==
    /\ pc = "return"
    /\ run = "first"
    /\ err = "none"
    /\ Mutating
    /\ run' = "residue"
    /\ UNCHANGED ec2
    /\ Restart

NextSame == Next \/ RerunSame

SpecSame == Init /\ [][NextSame]_vars

NextResidue == Next \/ RerunResidue

SpecResidue == Init /\ [][NextResidue]_vars

\* The command is run with --dry-run and then, on the same inventory, without.
RerunReal ==
    /\ pc = "return"
    /\ run = "first"
    /\ err = "none"
    /\ dryRun
    /\ run' = "real"
    /\ dryRun' = FALSE
    /\ firstRun' = [selected |-> Selected, err |-> err,
                    snaps |-> LoggedIds("DRYRUN: would have deleted snapshot"),
                    kept |-> LoggedIds("Keeping oldest AMI")]
    /\ pc' = "main"
    /\ images' = [id \in {} |-> 0]
    /\ w' = 0
    /\ cursor' = 0
    /\ imagesInThisInterval' = <<>>
    /\ oldestImage' = ""
    /\ idx' = 0
    /\ snaps' = {}
    /\ calls' = <<>>
    /\ logs' = <<>>
    /\ err' = "none"
    /\ UNCHANGED <<windows, tags, ec2, options, orchestrator, process>>

NextReal == Next \/ RerunReal

SpecReal == Init /\ [][NextReal]_vars

(* --------------------------- the whole run ---------------------------- *)

\* The instances EC2 may hold with the Name tag given on the command line.
InstanceIds == {"i-1", "i-2"}

\* The Name tag of an instance.
NameOf(i) == IF i = "i-3" THEN "db" ELSE "web"

\* resp.ImageId of CreateImage for an instance, copyResp.ImageId of CopyImage.
NewImage(i) ==
    CASE i = "i-1" -> "ami-1"
      [] i = "i-2" -> "ami-2"
      [] OTHER     -> "ami-3"
CopyOf(ami) ==
    CASE ami = "ami-1" -> "ami-1c"
      [] ami = "ami-2" -> "ami-2c"
      [] OTHER         -> "ami-3c"

\* The snapshot EC2 makes for a new image or for a copy.
NewSnapshot(ami) ==
    CASE ami = "ami-1"  -> "snap-1"
      [] ami = "ami-2"  -> "snap-2"
      [] ami = "ami-3"  -> "snap-3"
      [] ami = "ami-1c" -> "snap-1c"
      [] ami = "ami-2c" -> "snap-2c"
      [] OTHER          -> "snap-3c"

\* The backups of earlier runs found in either region: two images in one
\* slice of the window, the newer one backed by a snapshot, one image untagged.
BackupHistory ==
    [id \in ImageIds |->
        CASE id = "ami-a" -> FormatInt(2)
          [] id = "ami-b" -> <<>>
          [] OTHER        -> FormatInt(1)]

\* The -p windows of the runs considered: none, or one over the whole past.
WindowArgs ==
    {<<>>, <<[interval |-> MaxInterval, startAgo |-> 0, endAgo |-> MaxAgo]>>}

\* The Configs of the runs considered: for one name tag or for two.
Configs ==
    {[DefaultConfig EXCEPT !.timeout = t, !.purgeonly = p, !.destRegion = d,
                           !.instanceNameTags = n] :
        t \in 1..MaxTimeout, p \in BOOLEAN, d \in {"us-east-1", "us-west-1"},
        n \in {<<"web">>, <<"web", "db">>}}

\* The sets of instances EC2 may hold: none, one or two named web, one
\* named web and one named db.
InstanceSets == SUBSET InstanceIds \cup {{"i-1", "i-3"}}

\* The number of purgeAMIs calls of a run and of goroutines it may start.
PurgeCalls(c, ws) ==
    IF ws = <<>> THEN 0
    ELSE Len(c.instanceNameTags) * (IF c.destRegion # c.sourceRegion THEN 2 ELSE 1)
Goroutines(c, is) == IF c.purgeonly THEN 0 ELSE Cardinality(is)

\* The runs considered.  Every instance has one of the name tags given.  A
\* run that purges for real and backs up as well has one instance and at
\* most two purgeAMIs calls.  A purge-only run never looks at the instances:
\* one instance stands for them.  A run for two name tags has the longest
\* timeout.
Considered(c, ws, is, dr) ==
    /\ \A i \in is : \E k \in 1..Len(c.instanceNameTags) : c.instanceNameTags[k] = NameOf(i)
    /\ c.purgeonly => is = {"i-1"}
    /\ Len(c.instanceNameTags) > 1 => c.timeout = MaxTimeout
    /\ \/ dr
       \/ PurgeCalls(c, ws) = 0
       \/ Goroutines(c, is) = 0
       \/ PurgeCalls(c, ws) <= 2 /\ Goroutines(c, is) <= 1

InitMain ==
    /\ dryRun \in BOOLEAN
    /\ \E args \in WindowArgs : windows = handleOptions(args)
    /\ tags = BackupHistory
    /\ registered = ImageIds
    /\ snapshots = UNION {BlockDevices(id) : id \in ImageIds}
    /\ pc = "main"
    /\ PurgeEntry
    /\ arguments = <<>>
    /\ cfg \in Configs
    /\ instances \in InstanceSets
    /\ Considered(cfg, windows, instances, dryRun)
    /\ MainEntry

\* The process has not exited.
Running == exitCode = 0 - 1

\* The exit status of log.Fatalf (it ends in os.Exit(1)).
FatalfStatus == 1

\* log.Fatalf(msg): the line is written and the process is gone.
Fatalf(msg) ==
    /\ logs' = Append(logs, Log(msg, ""))
    /\ pc' = "exit"
    /\ exitCode' = FatalfStatus

\* A watchdog that spares a run in which some task has already finished.
WatchdogFiresUnlessProgress(t) ==
    t >= cfg.timeout /\ \A i \in DOMAIN task : task[i].pc \notin {"send", "finished"}

\* time.Sleep(c.timeout) has returned.
WatchdogFires(t) == t >= cfg.timeout

\* The watchdog goroutine: "time.Sleep(c.timeout); log.Fatalf("Hit timeout ...")".
\* One step is one unit of time going by.
Watchdog ==
    /\ Running
    /\ elapsed < MaxTimeout
    /\ elapsed' = elapsed + 1
    /\ IF WatchdogFires(elapsed')
       THEN Fatalf("Hit timeout before we finished - goodbye!")
       ELSE UNCHANGED <<logs, pc, exitCode>>
    /\ UNCHANGED <<config, ec2, images, w, cursor, slice, snaps, calls, err, rerun,
                   options, orchestrator>>

\* "if c.destRegion != c.sourceRegion" with the other region left out once
\* the purge of the source region has failed.
CrossRegionUnlessFailed == cfg.destRegion # cfg.sourceRegion /\ err = "none"

\* "if c.destRegion != c.sourceRegion"
CrossRegion == cfg.destRegion # cfg.sourceRegion

\* purgeAMIs is called for another region or name tag: the images and
\* snapshots its listing will see, and its locals.
PurgeCalled ==
    /\ registered' = ImageIds
    /\ snapshots' = UNION {BlockDevices(id) : id \in ImageIds}
    /\ pc' = "DescribeImages"
    /\ images' = [id \in {} |-> 0]
    /\ w' = 0
    /\ cursor' = 0
    /\ imagesInThisInterval' = <<>>
    /\ oldestImage' = ""
    /\ idx' = 0
    /\ snaps' = {}

\* main after a purgeAMIs call: the error is logged; the destination region
\* is purged when it differs from the source region, then the next name tag
\* has its turn.
PurgeReturned ==
    /\ pc = "return"
    /\ logs' = IF err # "none" THEN Append(logs, Log("Error purging old AMIs", region))
               ELSE logs
    /\ err' = "none"
    /\ IF Len(windows) > 0 /\ region = "source" /\ CrossRegion
       THEN /\ region' = "dest"
            /\ nameTag' = nameTag
            /\ PurgeCalled
       ELSE IF Len(windows) > 0 /\ nameTag < Len(cfg.instanceNameTags)
            THEN /\ region' = "source"
                 /\ nameTag' = nameTag + 1
                 /\ PurgeCalled
            ELSE /\ pc' = "purgeonly"
                 /\ nameTag' = 1
                 /\ UNCHANGED <<region, ec2, images, w, cursor, slice, snaps>>
    /\ UNCHANGED <<config, calls, rerun, options, instances, instanceset, started, joined,
                   task, process>>

\* The test of --purgeonly left out.
PurgeOnlyIgnored == FALSE

\* "if c.purgeonly"
PurgeOnlySet == cfg.purgeonly

\* "if c.purgeonly { log.Printf(...); return }"
PurgeOnly ==
    /\ pc = "purgeonly"
    /\ IF PurgeOnlySet
       THEN /\ logs' = Append(logs, Log("Purging done and --purgeonly specified - exiting.", ""))
            /\ pc' = "exit"
            /\ exitCode' = 0
       ELSE /\ pc' = "findInstances"
            /\ UNCHANGED <<logs, exitCode>>
    /\ UNCHANGED <<config, ec2, images, w, cursor, slice, snaps, calls, err, rerun,
                   options, orchestrator, elapsed>>

\* resp.Reservations of DescribeInstances with the filter tag:Name.
findInstances(instanceNameTag) == {i \in instances : NameOf(i) = instanceNameTag}

\* The check of the lookup's result left out.
NoneFoundIgnored(found) == FALSE

\* "if len(instanceset[instanceNameTag]) < 1"
NoneFound(found) == Cardinality(found) < 1

\* "for _, instanceNameTag := range c.instanceNameTags": findInstances for one
\* name tag and the check of its result in main.
FindInstances ==
    /\ pc = "findInstances"
    /\ IF nameTag > Len(cfg.instanceNameTags)
       THEN /\ pc' = "go"
            /\ UNCHANGED <<calls, logs, exitCode, instanceset, nameTag>>
       ELSE \E ok \in BOOLEAN :
            /\ calls' = Append(calls, Call("DescribeInstances", "", ok))
            /\ IF ~ok
               THEN /\ Fatalf("EC2 API DescribeInstances failed")
                    /\ UNCHANGED <<instanceset, nameTag>>
               ELSE IF NoneFound(findInstances(InstanceNameTag))
                    THEN /\ Fatalf("No instances with matching name tag")
                         /\ UNCHANGED <<instanceset, nameTag>>
                    ELSE /\ instanceset' = instanceset \cup findInstances(InstanceNameTag)
                         /\ nameTag' = nameTag + 1
                         /\ UNCHANGED <<pc, logs, exitCode>>
    /\ UNCHANGED <<config, ec2, images, w, cursor, slice, snaps, err, rerun, options,
                   region, instances, started, joined, task, elapsed>>

\* A goroutine at its first statement.  Besides its locals (newAMI, the id
\* of the copy, amis) the record keeps what the goroutine has done: the
\* calls it issued, those that returned an error, the images it saw
\* available, the resources it tagged, the image it had copied, the polls
\* of the running waitForAMI call that have failed in a row, for each
\* snapshot it tagged the image whose tags it passed on, and the timestamp
\* tag it gave to each image.
NewTask ==
    [pc |-> "createAMI", newAMI |-> "", copyId |-> "", ops |-> {}, err |-> "none",
     failed |-> {}, available |-> {}, tagged |-> {}, copied |-> "", amis |-> {},
     failedPolls |-> 0, propagated |-> {}, stamps |-> {}]

\* "for instanceNameTag, instances := range instanceset { ... i++; go func() {...}() }"
Go ==
    /\ pc = "go"
    /\ IF started = Cardinality(instanceset)
       THEN /\ pc' = "join"
            /\ UNCHANGED <<started, task>>
       ELSE \E i \in instanceset \ DOMAIN task :
            /\ task' = [j \in DOMAIN task \cup {i} |-> IF j = i THEN NewTask ELSE task[j]]
            /\ started' = started + 1
            /\ pc' = pc
    /\ UNCHANGED <<config, ec2, images, w, cursor, slice, snaps, calls, logs, err, rerun,
                   options, nameTag, region, instances, instanceset, joined, process>>

\* The join that is content with the first value received.
AllJoinedEarly == joined >= 1

\* The receive loop has taken one value per instance of instanceset.
AllJoined == joined = Cardinality(instanceset)

\* "n := <-done" once per instance, then "All done!" and the return of main.
Join ==
    /\ pc = "join"
    /\ IF AllJoined
       THEN /\ logs' = Append(logs, Log("All done!", ""))
            /\ pc' = "exit"
            /\ exitCode' = 0
            /\ UNCHANGED <<joined, task>>
       ELSE \E i \in DOMAIN task :
            /\ task[i].pc = "send"
            /\ task' = [task EXCEPT ![i].pc = "finished"]
            /\ joined' = joined + 1
            /\ UNCHANGED <<logs, pc, exitCode>>
    /\ UNCHANGED <<config, ec2, images, w, cursor, slice, snaps, calls, err, rerun,
                   options, nameTag, region, instances, instanceset, started, elapsed>>

(* ------------------------- one backup goroutine ----------------------- *)

\* What a step of a goroutine leaves alone.
TaskFrame ==
    UNCHANGED <<config, ec2, pc, images, w, cursor, slice, snaps, calls, logs, err, rerun,
                options, nameTag, region, instances, instanceset, started, joined, process>>

\* The goroutine whose call failed logs the error and returns; the deferred
\* send follows.
TaskFailed(t, op, msg) ==
    [t EXCEPT !.pc = "send", !.ops = @ \cup {op}, !.failed = @ \cup {op}, !.err = msg]

\* A failure that makes every other goroutine give up as well.
FailureStopsAll(i, op, msg) ==
    [j \in DOMAIN task |->
        IF j = i THEN TaskFailed(task[j], op, msg) ELSE [task[j] EXCEPT !.pc = "send"]]

\* The goroutines after a failed call of goroutine i: the others are as they were.
Failure(i, op, msg) == [task EXCEPT ![i] = TaskFailed(task[i], op, msg)]

\* An image or a snapshot of a region; the backups of a name tag in a region
\* are told from those of another by host and region.
Resource(id, r, host) == [id |-> id, region |-> r, host |-> host]

\* createAMI up to waitForAMI: CreateImage unless this is a dry run.
CreateAMI ==
    \E i \in DOMAIN task :
        /\ Running
        /\ task[i].pc = "createAMI"
        /\ IF Mutating
           THEN \E ok \in BOOLEAN :
                task' = IF ok
                        THEN [task EXCEPT ![i].pc = "waitForAMI", ![i].newAMI = NewImage(i),
                                          ![i].ops = @ \cup {"CreateImage"}]
                        ELSE Failure(i, "CreateImage", "Error creating AMI")
           ELSE task' = [task EXCEPT ![i].pc = "waitForAMI"]
        /\ TaskFrame

\* What DescribeImages can list for one image id: the image in its current
\* state; no image has the empty id.
ImageStates(id) == IF id = "" THEN {} ELSE {"pending", "available", "failed"}

\* A failed poll that is taken for the end of the wait.
PollFailedGivesUp(i) ==
    [task EXCEPT ![i] = [TaskFailed(task[i], "DescribeImages", "Error waiting for new AMI")
                            EXCEPT !.failedPolls = @ + 1]]

\* "if err != nil { log.Printf("Error waiting ... (trying again)"); continue }"
PollFailed(i) ==
    [task EXCEPT ![i].ops = @ \cup {"DescribeImages"}, ![i].failedPolls = @ + 1]

\* A wait that ends as soon as the image is listed, in whatever state.
WaitOverWhenListed(answer) == answer \in {"pending", "available", "failed"}

\* A wait that gives up when the image has failed.
WaitOverWhenSettled(answer) == answer \in {"available", "failed"}

\* "jobstate = *image.State; if jobstate == "available" { return nil }"
WaitOver(answer) == answer = "available"

\* waitForAMI: one poll.  An error, an empty listing or a state other than
\* "available" is followed by the next poll.
WaitForAMI ==
    \E i \in DOMAIN task :
        /\ Running
        /\ task[i].pc \in {"waitForAMI", "waitForCopy"}
        /\ LET id == IF task[i].pc = "waitForAMI" THEN task[i].newAMI ELSE task[i].copyId
           IN  \E answer \in {"error", "none"} \cup ImageStates(id) :
               IF answer = "error"
               THEN /\ task[i].failedPolls < MaxPollFailures
                    /\ task' = PollFailed(i)
               ELSE task' = [task EXCEPT ![i] =
                   [@ EXCEPT !.ops = @ \cup {"DescribeImages"},
                             !.failedPolls = 0,
                             !.available = IF answer = "available" THEN @ \cup {id} ELSE @,
                             !.pc = IF ~WaitOver(answer) THEN @
                                    ELSE IF @ = "waitForAMI" THEN "tagAMI" ELSE "findTag"]]
        /\ TaskFrame

\* The seconds of the clock at the moment of the call.
timeSecsAtCall == FormatInt(Now + elapsed)

\* "var timeSecs = fmt.Sprintf("%d", time.Now().Unix())": the package
\* variable, set when the process starts.
timeSecs == FormatInt(Now)

\* The "timestamp" tag of a CreateTags call on an image.
Stamp(id, r, host) == [image |-> Resource(id, r, host), timestamp |-> timeSecs]

\* createAMI after waitForAMI: CreateTags on the new image.
TagAMI ==
    \E i \in DOMAIN task :
        /\ Running
        /\ task[i].pc = "tagAMI"
        /\ \E ok \in BOOLEAN :
            task' = IF ok
                    THEN [task EXCEPT ![i].pc = "copyAMI", ![i].ops = @ \cup {"CreateTags"},
                              ![i].tagged = @ \cup {Resource(task[i].newAMI, "source", NameOf(i))},
                              ![i].stamps = @ \cup {Stamp(task[i].newAMI, "source", NameOf(i))}]
                    ELSE Failure(i, "CreateTags", "Error creating AMI")
        /\ TaskFrame

\* copyAMI up to CopyImage.
CopyAMI ==
    \E i \in DOMAIN task :
        /\ Running
        /\ task[i].pc = "copyAMI"
        /\ IF dryRun \/ ~CrossRegion
           THEN task' = [task EXCEPT ![i].pc = "findTag"]
           ELSE \E ok \in BOOLEAN :
                task' = IF ok
                        THEN [task EXCEPT ![i].pc = "tagCopy",
                                          ![i].copyId = CopyOf(task[i].newAMI),
                                          ![i].copied = task[i].newAMI,
                                          ![i].ops = @ \cup {"CopyImage"}]
                        ELSE Failure(i, "CopyImage", "Error copying AMI")
        /\ TaskFrame

\* copyAMI: CreateTags on the copy, before the wait for it.
TagCopy ==
    \E i \in DOMAIN task :
        /\ Running
        /\ task[i].pc = "tagCopy"
        /\ \E ok \in BOOLEAN :
            task' = IF ok
                    THEN [task EXCEPT ![i].pc = "waitForCopy", ![i].ops = @ \cup {"CreateTags"},
                              ![i].tagged = @ \cup {Resource(task[i].copyId, "dest", NameOf(i))},
                              ![i].stamps = @ \cup {Stamp(task[i].copyId, "dest", NameOf(i))}]
                    ELSE Failure(i, "CreateTags", "Error copying AMI")
        /\ TaskFrame

\* The regions the two clients of a goroutine talk to.
Regions == IF CrossRegion THEN {"source", "dest"} ELSE {"source"}

\* What the purges of this run left of the earlier backups of a name tag in
\* a region.
DoneIn(op, host, r) ==
    {calls[k].id : k \in {j \in 1..Len(calls) :
        calls[j].op = op /\ calls[j].ok /\ calls[j].tag = host /\ calls[j].region = r}}
ImagesLeft(host, r) == ImageIds \ DoneIn("DeregisterImage", host, r)
SnapshotsLeft(host, r) ==
    UNION {BlockDevices(id) : id \in ImageIds} \ DoneIn("DeleteSnapshot", host, r)

\* findAMIs: the images with the hostname tag, in both regions: the earlier
\* backups and the images and copies of this run that have been tagged.
findAMIs(host) ==
    UNION {{Resource(id, r, host) : id \in ImagesLeft(host, r)} : r \in Regions}
    \cup
    UNION {{x \in task[j].tagged : x.host = host /\ x.id \in {task[j].newAMI, task[j].copyId}} :
              j \in DOMAIN task}

\* findTagVolumeSnapshots: findAMIs; its error is returned.
FindAMIs ==
    \E i \in DOMAIN task :
        /\ Running
        /\ task[i].pc = "findTag"
        /\ \E ok \in BOOLEAN :
            task' = IF ok
                    THEN [task EXCEPT ![i].pc = "tagSource", ![i].amis = findAMIs(NameOf(i)),
                                      ![i].ops = @ \cup {"DescribeImages"}]
                    ELSE Failure(i, "DescribeImages", "Error Tagging Snapshots")
        /\ TaskFrame

\* resp.Snapshots of DescribeSnapshots in a region, as far as a goroutine of
\* one name tag can match them: the snapshots of that name tag's earlier
\* backups and those of the images and copies this run has made.
DescribeSnapshots(host, r) ==
    {Resource(snap, r, host) : snap \in SnapshotsLeft(host, r)}
    \cup {Resource(NewSnapshot(task[j].newAMI), "source", NameOf(j)) :
              j \in {k \in DOMAIN task : task[k].newAMI # "" /\ r = "source"}}
    \cup {Resource(NewSnapshot(task[j].copyId), "dest", NameOf(j)) :
              j \in {k \in DOMAIN task : task[k].copyId # "" /\ r = "dest"}}

\* "res := re.FindStringSubmatch(*snapshot.Description); snapshot_ami := res[0];
\* if amis[snapshot_ami] != nil": the snapshots of a listing that get tags.
TagsFrom(snap, amis) ==
    {ami \in amis :
        /\ FindStringSubmatch(Description(snap.id)) = IdChars(ami.id)
        /\ ami.region = snap.region /\ ami.host = snap.host}
Matching(listing, amis) == {snap \in listing : TagsFrom(snap, amis) # {}}

\* TagVolumeSnapshots for one region: DescribeSnapshots, then CreateTags for
\* each snapshot whose description names an image of amis.  The call returns
\* at the first error (here: of DescribeSnapshots, or of the first
\* CreateTags); findTagVolumeSnapshots drops the error and goes on.
TagVolumeSnapshots ==
    \E i \in DOMAIN task :
        /\ Running
        /\ task[i].pc \in {"tagSource", "tagDest"}
        /\ LET r == IF task[i].pc = "tagDest" /\ CrossRegion THEN "dest" ELSE "source"
               next == IF task[i].pc = "tagSource" THEN "tagDest" ELSE "send"
               found == Matching(DescribeSnapshots(NameOf(i), r), task[i].amis)
           IN  \E outcome \in {"DescribeSnapshots", "CreateTags", "ok"} :
               /\ outcome = "CreateTags" => found # {}
               /\ task' = [task EXCEPT ![i] =
                      [@ EXCEPT !.pc = next,
                                !.ops = @ \cup {"DescribeSnapshots"} \cup
                                        (IF outcome # "DescribeSnapshots" /\ found # {}
                                         THEN {"CreateTags"} ELSE {}),
                                !.failed = IF outcome = "ok" THEN @ ELSE @ \cup {outcome},
                                !.tagged = IF outcome = "ok" THEN @ \cup found ELSE @,
                                !.propagated =
                                    IF outcome = "ok"
                                    THEN @ \cup UNION {{[snap |-> x, ami |-> y] :
                                                          y \in TagsFrom(x, task[i].amis)} :
                                                      x \in found}
                                    ELSE @]]
        /\ TaskFrame

\* findTagVolumeSnapshots.
FindTagVolumeSnapshots ==
    \/ FindAMIs
    \/ TagVolumeSnapshots

NextMain ==
    \/ Next
    \/ Watchdog
    \/ PurgeReturned
    \/ PurgeOnly
    \/ FindInstances
    \/ Go
    \/ Join
    \/ CreateAMI
    \/ WaitForAMI
    \/ TagAMI
    \/ CopyAMI
    \/ TagCopy
    \/ FindTagVolumeSnapshots

SpecMain == InitMain /\ [][NextMain]_vars

(* --------------------------- handleOptions ---------------------------- *)

\* strings.Split(s, ":")
RECURSIVE Split(_)
Split(s) ==
    IF \A k \in 1..Len(s) : s[k] # ":" THEN <<s>>
    ELSE LET k == CHOOSE j \in 1..Len(s) : s[j] = ":" /\ \A l \in 1..(j - 1) : s[l] # ":"
         IN  <<SubSeq(s, 1, k - 1)>> \o Split(SubSeq(s, k + 1, Len(s)))

\* daysToHours: "^(\d+)d$" becomes the number times 24, with the unit h.
daysToHours(in) ==
    IF Len(in) >= 2 /\ in[Len(in)] = "d" /\ \A k \in 1..(Len(in) - 1) : IsDigit(in[k])
    THEN Append(FormatInt(DigitsValue(SubSeq(in, 1, Len(in) - 1)) * 24), "h")
    ELSE in

\* time.ParseDuration for the strings considered here, which use the unit h
\* (one time unit of the model): an optional sign, digits, the unit.  A
\* string without digits or without a unit, or with the unit d, is an error.
ParseDuration(s) ==
    LET signed == s # <<>> /\ s[1] \in {"+", "-"}
        body   == IF signed THEN Tail(s) ELSE s
    IN  IF Len(body) >= 2 /\ body[Len(body)] = "h"
           /\ \A k \in 1..(Len(body) - 1) : IsDigit(body[k])
        THEN [err |-> FALSE,
              val |-> IF signed /\ s[1] = "-"
                      THEN 0 - DigitsValue(SubSeq(body, 1, Len(body) - 1))
                      ELSE DigitsValue(SubSeq(body, 1, Len(body) - 1))]
        ELSE [err |-> TRUE, val |-> 0]

\* strings.Contains(s, substr) on a key id given as the fields of its arn.
Contains(s, substr) == \E k \in 1..Len(s) : s[k] = substr

\* The region field of a KMS key arn: the region the key resides in.
KeyRegion(key) == key[3]

\* The --kms-key-id values considered: none (docopt's nil), a key of the
\* destination region, a key of the source region, and a key of the source
\* region whose alias carries the destination region's name.
NoKey == <<>>
KmsKeyIds ==
    {NoKey,
     <<"arn", "kms", "us-west-1", "key", "1234abcd">>,
     <<"arn", "kms", "us-east-1", "key", "1234abcd">>,
     <<"arn", "kms", "us-east-1", "alias", "us-west-1">>}

\* The --timeout values considered: the longest timeout, and a number
\* without unit.
TimeoutStrings == {Append(FormatInt(MaxTimeout), "h"), FormatInt(MaxTimeout)}

\* The -p values considered: a window over the whole past, the same with the
\* interval in days, one with two fields, one whose last field is no
\* duration, one whose PURGE_START lies further back than its PURGE_END, and
\* one over the whole past with the interval 0h.
WholePast ==
    Append(FormatInt(MaxInterval), "h") \o <<":", "0", "h", ":">> \o Append(FormatInt(MaxAgo), "h")
PurgeStrings ==
    {WholePast,
     <<"1", "d", ":", "0", "h", ":">> \o Append(FormatInt(MaxAgo), "h"),
     <<"1", "d", ":", "0", "h">>,
     <<"1", "h", ":", "0", "h", ":", "x">>,
     <<"1", "h", ":">> \o Append(FormatInt(MaxAgo), "h") \o <<":", "0", "h">>,
     <<"0", "h", ":", "0", "h", ":">> \o Append(FormatInt(MaxAgo), "h")}

\* The command lines considered.
Arguments ==
    [timeout : TimeoutStrings, purgeonly : {FALSE}, dryRun : BOOLEAN, encrypted : BOOLEAN,
     kmsKeyId : KmsKeyIds, source : {"us-east-1"}, dest : {"us-west-1"},
     instanceNameTags : {<<"web">>},
     purge : {<<>>} \cup {<<p>> : p \in PurgeStrings}
             \cup {<<WholePast, p>> : p \in PurgeStrings}]

\* c := Config{}
ZeroConfig ==
    [timeout |-> 0, purgeonly |-> FALSE, encrypted |-> FALSE, kmsKeyId |-> <<>>,
     sourceRegion |-> "", destRegion |-> "", instanceNameTags |-> <<>>]

InitOptions ==
    /\ arguments \in Arguments
    /\ cfg = ZeroConfig
    /\ dryRun = FALSE
    /\ windows = <<>>
    /\ tags = BackupHistory
    /\ registered = ImageIds
    /\ snapshots = UNION {BlockDevices(id) : id \in ImageIds}
    /\ instances = {}
    /\ pc = "handleOptions"
    /\ PurgeEntry
    /\ MainEntry

\* What a step of handleOptions leaves alone.
OptionsFrame ==
    UNCHANGED <<arguments, tags, ec2, images, w, cursor, slice, snaps, calls, err, rerun,
                orchestrator, elapsed>>

\* handleOptions up to the flags: the regions, the timeout, --purgeonly, --dry-run.
ParseTimeout ==
    /\ pc = "handleOptions"
    /\ LET d == ParseDuration(arguments.timeout) IN
       IF d.err
       THEN /\ Fatalf("Invalid timeout")
            /\ cfg' = [cfg EXCEPT !.instanceNameTags = arguments.instanceNameTags,
                                  !.sourceRegion = arguments.source,
                                  !.destRegion = arguments.dest]
            /\ UNCHANGED dryRun
       ELSE /\ cfg' = [cfg EXCEPT !.instanceNameTags = arguments.instanceNameTags,
                                  !.sourceRegion = arguments.source,
                                  !.destRegion = arguments.dest,
                                  !.timeout = d.val,
                                  !.purgeonly = arguments.purgeonly]
            /\ dryRun' = arguments.dryRun
            /\ pc' = "kms"
            /\ UNCHANGED <<logs, exitCode>>
    /\ UNCHANGED windows
    /\ OptionsFrame

\* The key resides in the destination region.
KeyInDestination(key, dest) == KeyRegion(key) = dest

\* "strings.Contains(arguments["--kms-key-id"].(string), c.destRegion)"
KeyAccepted(key, dest) == Contains(key, dest)

\* "if --encrypted || --kms-key-id != nil { c.encrypted = true; ... }"
ParseKmsKeyId ==
    /\ pc = "kms"
    /\ IF arguments.encrypted \/ arguments.kmsKeyId # NoKey
       THEN IF arguments.kmsKeyId # NoKey
            THEN IF ~KeyAccepted(arguments.kmsKeyId, cfg.destRegion)
                 THEN /\ Fatalf("kms-key-id does not reside in destination.")
                      /\ cfg' = [cfg EXCEPT !.encrypted = TRUE]
                 ELSE /\ cfg' = [cfg EXCEPT !.encrypted = TRUE,
                                            !.kmsKeyId = arguments.kmsKeyId]
                      /\ pc' = "purge"
                      /\ UNCHANGED <<logs, exitCode>>
            ELSE /\ cfg' = [cfg EXCEPT !.encrypted = TRUE]
                 /\ pc' = "purge"
                 /\ UNCHANGED <<logs, exitCode>>
       ELSE /\ pc' = "purge"
            /\ UNCHANGED <<cfg, logs, exitCode>>
    /\ UNCHANGED <<dryRun, windows>>
    /\ OptionsFrame

\* The fields of one -p value, after daysToHours and time.ParseDuration.
WindowFields(p) == [k \in 1..Len(Split(p)) |-> ParseDuration(daysToHours(Split(p)[k]))]

\* One -p value is three durations.
WellFormedWindow(p) ==
    Len(Split(p)) = 3 /\ \A k \in 1..3 : ~WindowFields(p)[k].err

\* "for _, w := range arguments["--purge"]": one window per step, then the
\* return of handleOptions.
ParsePurge ==
    /\ pc = "purge"
    /\ IF Len(windows) = Len(arguments.purge)
       THEN /\ pc' = "main"
            /\ UNCHANGED <<windows, logs, exitCode>>
       ELSE LET p == arguments.purge[Len(windows) + 1] IN
            IF ~WellFormedWindow(p)
            THEN /\ Fatalf("Malformed purge window")
                 /\ UNCHANGED windows
            ELSE /\ windows' = Append(windows,
                        newWindow([interval |-> WindowFields(p)[1].val,
                                   startAgo |-> WindowFields(p)[2].val,
                                   endAgo   |-> WindowFields(p)[3].val]))
                 /\ UNCHANGED <<pc, logs, exitCode>>
    /\ UNCHANGED <<dryRun, cfg>>
    /\ OptionsFrame

NextOptions ==
    \/ ParseTimeout
    \/ ParseKmsKeyId
    \/ ParsePurge
    \/ Next

SpecOptions == InitOptions /\ [][NextOptions]_vars

\* The same with main never stopped from outside once handleOptions has
\* returned: purgeAMIs takes its next step as long as it has one.
SpecOptionsRun == SpecOptions /\ WF_vars(Next)

(* ------------------------------ claims -------------------------------- *)

Range(seq) == {seq[i] : i \in 1..Len(seq)}

\* The backup timestamp an image carries: the number a backup wrote there.
HasTime(id) == \E t \in 0..Now : FormatInt(t) = tags[id]
TimeOf(id) == CHOOSE t \in 0..Now : FormatInt(t) = tags[id]

\* A window's span [start, stop).
InSpan(t, window) == window.start <= t /\ t < window.stop
InSomeSpan(t) == \E i \in 1..Len(windows) : InSpan(t, windows[i])

\* The slice starts of a window: start, start + interval, ... below stop.
Cursors(window) ==
    {c \in window.start..(window.stop - 1) : (c - window.start) % window.interval = 0}

\* What one slice's processing deregistered, or would have in a dry run.
SelectedIn(i, c) ==
    {calls[k].id : k \in {j \in 1..Len(calls) :
        calls[j].op = "DeregisterImage" /\ calls[j].w = i /\ calls[j].cursor = c}}
    \cup
    {logs[k].id : k \in {j \in 1..Len(logs) :
        logs[j].msg = "DRYRUN: would have deregistered image"
        /\ logs[j].w = i /\ logs[j].cursor = c}}

\* The processing of the current slice has come to its end.
SliceDone == pc = "item" /\ idx > Len(imagesInThisInterval)

\* C1: an image whose backup timestamp lies outside every window's span
\* [start, stop) is never deregistered; with no window nothing is deregistered.
C1_PurgedOnlyInsideAWindow ==
    \A id \in IssuedIds("DeregisterImage") : HasTime(id) /\ InSomeSpan(TimeOf(id))

\* C1 witness: a purge under two windows ran to its end, deregistered
\* something, and left an image that is newer than every window.
C1_Witness ==
    /\ pc = "return"
    /\ err = "none"
    /\ IssuedIds("DeregisterImage") # {}
    /\ \E id \in registered :
        /\ HasTime(id)
        /\ \A i \in 1..Len(windows) : TimeOf(id) >= windows[i].stop
    /\ Len(windows) = 2

\* C2: when the processing of a slice holding more than one image ends, the
\* image kept is one with the earliest timestamp of the slice and every other
\* image of the slice was purged by it (three images: the two newest purged).
C2_OldestKeptOthersPurged ==
    SliceDone =>
        LET members == Range(imagesInThisInterval) IN
        /\ members = SliceMembers(cursor, windows[w])
        /\ Cardinality(members) > 1
        /\ oldestImage \in members
        /\ \A m \in members : TimeOf(oldestImage) <= TimeOf(m)
        /\ SelectedIn(w, cursor) = members \ {oldestImage}
        /\ Mutating => (members \ {oldestImage}) \cap registered = {}

\* C2 witness: a slice of three images, one older than the two others, has
\* been processed: the two newest are deregistered, the oldest is registered.
C2_Witness ==
    /\ SliceDone
    /\ Mutating
    /\ Len(imagesInThisInterval) = 3
    /\ \A m \in Range(imagesInThisInterval) \ {oldestImage} :
        TimeOf(oldestImage) < TimeOf(m)
    /\ Cardinality(SelectedIn(w, cursor)) = 2
    /\ oldestImage \in registered

\* C3: two evaluations of the same windows on the same inventory that both
\* return without error select the same images.
C3_SameSelection ==
    (run = "same" /\ pc = "return" /\ err = "none") => Selected = firstRun.selected

\* C4: slices are half-open: every image with start <= t < stop lies in
\* exactly one slice of the window, the one with cursor <= t < cursorEnd.
C4_HalfOpenSlices ==
    \A i \in 1..Len(windows) : \A id \in DOMAIN images :
        InSpan(images[id], windows[i]) =>
            /\ Cardinality({c \in Cursors(windows[i]) :
                   InSlice(images[id], c, CursorEnd(c, windows[i]))}) = 1
            /\ \A c \in Cursors(windows[i]) :
                   InSlice(images[id], c, CursorEnd(c, windows[i]))
                       <=> (c <= images[id] /\ images[id] < CursorEnd(c, windows[i]))

\* C5: an image with no timestamp tag, or with one that is not a base-10
\* integer, is not in the inventory, in no slice, never the survivor, never
\* looked up, never deregistered, and stays registered.
WellFormed(tag) ==
    /\ Len(tag) >= 1
    /\ \A i \in 1..Len(tag) : IsDigit(tag[i]) \/ (i = 1 /\ Len(tag) > 1 /\ tag[i] \in {"+", "-"})

C5_UnmanagedUntouched ==
    \A id \in ImageIds : ~WellFormed(tags[id]) =>
        /\ id \notin DOMAIN images
        /\ id \notin Range(imagesInThisInterval)
        /\ id # oldestImage
        /\ id \notin IssuedIds("DescribeImage")
        /\ id \notin Selected
        /\ id \notin LoggedIds("Keeping oldest AMI")
        /\ id \in registered
        /\ BlockDevices(id) \subseteq snapshots

\* C5 witness: a purge ran to its end and deregistered an image at time 2
\* while the image whose tag is the corrupt "2x" is still registered.
C5_Witness ==
    /\ pc = "return"
    /\ err = "none"
    /\ \E id \in registered : tags[id] \in CorruptTags
    /\ \E id \in IssuedIds("DeregisterImage") : tags[id] = FormatInt(2)

\* C6: an image is deregistered by at most one call of a purge, also when two
\* windows select it.
C6_OneDeregisterPerImage ==
    \A id \in ImageIds :
        Cardinality({k \in 1..Len(calls) :
            calls[k].op = "DeregisterImage" /\ calls[k].id = id}) <= 1

\* C7: after a purge without API failure every half-open slice of every window
\* that held a managed image holds exactly one image, its earliest.
C7_OneSurvivorPerSlice ==
    (pc = "return" /\ err = "none" /\ Mutating /\ run = "first") =>
        \A i \in 1..Len(windows) : \A c \in Cursors(windows[i]) :
            LET before == {id \in ImageIds : HasTime(id) /\ c <= TimeOf(id)
                              /\ TimeOf(id) < CursorEnd(c, windows[i])}
                after  == before \cap registered
            IN  before # {} =>
                    /\ Cardinality(after) = 1
                    /\ \A id \in after : \A m \in before : TimeOf(id) <= TimeOf(m)

\* C8: evaluating the same windows on what a completed purge left selects
\* no image.
C8_Idempotent ==
    run = "residue" =>
        /\ Selected = {}
        /\ \A k \in 1..Len(calls) : calls[k].op \notin {"DeregisterImage", "DeleteSnapshot"}

\* C8 witness: the second evaluation over the residue ran to its end after a
\* first purge that deregistered two images under two windows.
C8_Witness ==
    /\ run = "residue"
    /\ pc = "return"
    /\ err = "none"
    /\ Cardinality(firstRun.selected) = 2
    /\ Len(windows) = 2
    /\ Cardinality(registered) = 1

\* C9: a slice with fewer than two images causes no deletion; when no two
\* managed images are less than a window's interval apart, for every window,
\* nothing is deregistered.
FarApart ==
    \A i \in 1..Len(windows) : \A a, b \in ImageIds :
        (a # b /\ HasTime(a) /\ HasTime(b)) =>
            \/ TimeOf(a) - TimeOf(b) >= windows[i].interval
            \/ TimeOf(b) - TimeOf(a) >= windows[i].interval

C9_SparseSlicesUntouched ==
    /\ pc \in {"findSnapshots", "deregister", "deleteSnapshots"} =>
           Cardinality(SliceMembers(cursor, windows[w])) > 1
    /\ (Selected = {} /\ registered = ImageIds) \/ ~FarApart

\* C9 witness: one image per time unit, three of them, two inside the span of
\* a window of interval 1 and one older than the window; the purge ran to its
\* end and deregistered nothing.
C9_Witness ==
    /\ pc = "return"
    /\ err = "none"
    /\ Len(calls) = 1
    /\ Mutating
    /\ FarApart
    /\ windows = <<[interval |-> 1, start |-> 1, stop |-> 3]>>
    /\ \A id \in ImageIds : HasTime(id)
    /\ {TimeOf(id) : id \in ImageIds} = {0, 1, 2}
    /\ registered = ImageIds

\* C10: with the dry-run flag set no DeregisterImage and no DeleteSnapshot
\* call is issued and the region is left as it was.
C10_DryRunIssuesNoDelete ==
    dryRun =>
        /\ \A k \in 1..Len(calls) : calls[k].op \notin {"DeregisterImage", "DeleteSnapshot"}
        /\ registered = ImageIds
        /\ snapshots = UNION {BlockDevices(id) : id \in ImageIds}

\* C10 witness: a dry run ran to its end and logged two images and two
\* snapshots it would have deleted.
C10_Witness ==
    /\ dryRun
    /\ pc = "return"
    /\ err = "none"
    /\ Cardinality(Selected) = 2
    /\ Cardinality(LoggedIds("DRYRUN: would have deleted snapshot")) >= 2

\* C12: a dry run logs as "would have deregistered / deleted" the images and
\* snapshots that a real run on the same inventory and windows, meeting no API
\* failure, deregisters and deletes, and both log the same kept survivors.
C12_DryRunFaithful ==
    (run = "real" /\ pc = "return" /\ err = "none") =>
        /\ IssuedIds("DeregisterImage") = firstRun.selected
        /\ IssuedIds("DeleteSnapshot") = firstRun.snaps
        /\ LoggedIds("Keeping oldest AMI") = firstRun.kept

\* The images of slice (cu, cursorEnd) that are newer than another image of
\* it: selected for deletion whichever way the range over the map goes.
Surplus(cu, window) ==
    {m \in SliceMembers(cu, window) :
        \E o \in SliceMembers(cu, window) : images[o] < images[m]}

\* No listing and no lookup of an image's snapshots failed.
NoDescribeFailed ==
    \A k \in 1..Len(calls) :
        calls[k].op \in {"DescribeImages", "DescribeImage"} => calls[k].ok

\* C13: a failed DeregisterImage or DeleteSnapshot does not abort the purge:
\* when purgeAMIs returns, every image selected for deletion, in every slice
\* of every window, has been processed (its DeregisterImage was issued).
C13_FailureDoesNotAbort ==
    (pc = "return" /\ Len(calls) > 0 /\ NoDescribeFailed) =>
        \A i \in 1..Len(windows) : \A cu \in Cursors(windows[i]) :
            Surplus(cu, windows[i]) \subseteq SelectedIn(i, cu)

\* C21: a snapshot whose description holds no image id is never deleted by
\* the purge, also when the image it backs is purged.
C21_UnreferencedSnapshotKept ==
    \A k \in 1..Len(calls) :
        calls[k].op = "DeleteSnapshot" => FindStringSubmatch(Description(calls[k].id)) # <<>>

(* -------------------- claims about the whole run ---------------------- *)

LoggedMsgs == {logs[k].msg : k \in 1..Len(logs)}
CallOps == {calls[k].op : k \in 1..Len(calls)}
TaskOps == UNION {task[i].ops : i \in DOMAIN task}
CallCount(op) == Cardinality({k \in 1..Len(calls) : calls[k].op = op})

\* The run ended in the watchdog's log.Fatalf.
TimedOut == "Hit timeout before we finished - goodbye!" \in LoggedMsgs

\* C11: with --dry-run no CreateImage, CopyImage, CreateTags, DeregisterImage
\* or DeleteSnapshot call is issued by the purge of either region or by any
\* backup goroutine.
C11_DryRunWholeRun ==
    dryRun =>
        /\ CallOps \cap {"DeregisterImage", "DeleteSnapshot"} = {}
        /\ TaskOps \cap {"CreateImage", "CopyImage", "CreateTags"} = {}

\* C11 witness: a dry run has gone through the purge of both regions, logging
\* what it would have deregistered, and has started both goroutines, which
\* are polling for their image.
C11_Witness ==
    /\ dryRun
    /\ region = "dest"
    /\ Cardinality({k \in 1..Len(logs) :
           logs[k].msg = "DRYRUN: would have deregistered image"}) = 2
    /\ DOMAIN task = InstanceIds
    /\ \A i \in DOMAIN task : task[i].pc = "waitForAMI" /\ "DescribeImages" \in task[i].ops

\* Something failed in a purge or in a goroutine.
SomeFailure ==
    \/ "Error purging old AMIs" \in LoggedMsgs
    \/ \E i \in DOMAIN task : task[i].err # "none"

\* The run was ended by a log.Fatalf.
Aborted ==
    LoggedMsgs \cap {"Hit timeout before we finished - goodbye!",
                     "EC2 API DescribeInstances failed",
                     "No instances with matching name tag"} # {}

\* C14: the exit status is 2 for an aborted run, 1 for a run that finished
\* with a failed purge or a failed instance task, 0 otherwise.
C14_ExitDisposition ==
    ~Running =>
        exitCode = IF Aborted THEN 2 ELSE IF SomeFailure THEN 1 ELSE 0

Pending == {i \in DOMAIN task : task[i].pc \notin {"send", "finished"}}

\* The operations the watchdog's message names.
TimeoutReport ==
    {logs[k].id : k \in {j \in 1..Len(logs) :
        logs[j].msg = "Hit timeout before we finished - goodbye!"}} \ {""}

\* C16: the message of the watchdog's abort names exactly the operations
\* pending at that moment.
C16_ReportNamesPending ==
    TimedOut => TimeoutReport = Pending

\* A goroutine went through its create, wait, tag and (across regions) copy.
CompletedSteps(i) ==
    /\ {"CreateImage", "DescribeImages", "CreateTags"} \subseteq task[i].ops
    /\ cfg.destRegion # cfg.sourceRegion => "CopyImage" \in task[i].ops

\* C17: a goroutine ends without error only after its own create, wait, copy
\* and tag steps, whatever failed in the other goroutines; a failure in a
\* goroutine never ends the process; "All done!" follows the end of them all.
C17_FailureIsLocal ==
    /\ \A i \in DOMAIN task :
           (task[i].pc \in {"send", "finished"} /\ task[i].err = "none") => CompletedSteps(i)
    /\ (~Running /\ ~Aborted /\ ~cfg.purgeonly) =>
           /\ "All done!" \in LoggedMsgs
           /\ \A i \in instanceset : i \in DOMAIN task /\ task[i].pc = "finished"

\* C17 witness: the run reached "All done!" with one goroutine failed at its
\* CreateImage and the other through create, wait, copy and tag.
C17_Witness ==
    /\ "All done!" \in LoggedMsgs
    /\ cfg.destRegion # cfg.sourceRegion
    /\ \E i, j \in DOMAIN task :
        /\ task[i].err = "Error creating AMI" /\ task[i].ops = {"CreateImage"}
        /\ task[j].err = "none" /\ task[j].copyId # "" /\ CompletedSteps(j)

\* C18: one goroutine is started per instance found; main counts one value
\* received per goroutine finished, says "All done!" only when every goroutine
\* started has sent its value, and can always go on receiving once all
\* goroutines have come to their send.
C18_JoinCountsTasks ==
    /\ DOMAIN task \subseteq instanceset
    /\ started = Cardinality(DOMAIN task)
    /\ joined = Cardinality({i \in DOMAIN task : task[i].pc = "finished"})
    /\ pc = "join" => DOMAIN task = instances
    /\ "All done!" \in LoggedMsgs =>
           /\ DOMAIN task = instances
           /\ joined = started
           /\ \A i \in DOMAIN task : task[i].pc = "finished"
    /\ (pc = "join" /\ \A i \in DOMAIN task : task[i].pc \in {"send", "finished"}) =>
           (AllJoined \/ \E i \in DOMAIN task : task[i].pc = "send")

\* C18 witness: two instances, two goroutines, two values received, then
\* "All done!"; one goroutine had failed.
C18_Witness ==
    /\ "All done!" \in LoggedMsgs
    /\ instances = InstanceIds
    /\ joined = Cardinality(InstanceIds)
    /\ \E i \in DOMAIN task : task[i].err # "none"
    /\ \E i \in DOMAIN task : task[i].err = "none"

\* C19: with --purgeonly no DescribeInstances, CreateImage, CopyImage or
\* CreateTags call is issued and no goroutine is started; the run ends, with
\* status 0, after purgeAMIs was called for each name tag and region.
C19_PurgeOnlySkipsCreate ==
    cfg.purgeonly =>
        /\ "DescribeInstances" \notin CallOps
        /\ DOMAIN task = {}
        /\ started = 0
        /\ pc \notin {"findInstances", "go", "join"}
        /\ exitCode = 0 =>
               /\ "Purging done and --purgeonly specified - exiting." \in LoggedMsgs
               /\ CallCount("DescribeImages") = PurgeCalls(cfg, windows)

\* C19 witness: a purge-only run ended with status 0 after deregistering an
\* image in each of the two regions, with instances present.
C19_Witness ==
    /\ cfg.purgeonly
    /\ exitCode = 0
    /\ instances # {}
    /\ CallCount("DescribeImages") = 2
    /\ Cardinality({k \in 1..Len(calls) :
           calls[k].op = "DeregisterImage" /\ calls[k].ok}) = 2

\* The command line carries a configuration error.
ConfigurationError ==
    \/ ParseDuration(arguments.timeout).err
    \/ arguments.kmsKeyId # NoKey /\ ~KeyInDestination(arguments.kmsKeyId, arguments.dest)
    \/ \E k \in 1..Len(arguments.purge) : ~WellFormedWindow(arguments.purge[k])

\* C20: a malformed -p window, an invalid timeout or a key id that does not
\* reside in the destination region ends the run in log.Fatalf before any
\* remote call; a key id given sets c.encrypted.
C20_ConfigErrorsAreFatal ==
    /\ ConfigurationError =>
           /\ calls = <<>>
           /\ pc \in {"handleOptions", "kms", "purge", "exit"}
           /\ pc = "exit" => exitCode = FatalfStatus
    /\ (arguments.kmsKeyId # NoKey /\ pc \notin {"handleOptions", "kms", "exit"}) =>
           cfg.encrypted

\* C22: within one goroutine CopyImage is issued only after its CreateImage
\* has returned and its image was seen "available"; the CreateTags for the
\* copy and the wait for the copy come only after CopyImage has returned;
\* the image a goroutine copies is the one it created.
C22_StepsInOrder ==
    \A i \in DOMAIN task :
        /\ "CopyImage" \in task[i].ops =>
               /\ "CreateImage" \in task[i].ops \ task[i].failed
               /\ task[i].newAMI = NewImage(i)
               /\ task[i].newAMI \in task[i].available
        /\ task[i].copied \in {"", NewImage(i)}
        /\ \A j \in DOMAIN task \ {i} :
               task[i].copied # "" => task[i].copied # task[j].newAMI
        /\ (task[i].pc \in {"tagCopy", "waitForCopy"}
              \/ task[i].copyId \in task[i].available
              \/ Resource(task[i].copyId, "dest", NameOf(i)) \in task[i].tagged) =>
               /\ "CopyImage" \in task[i].ops \ task[i].failed
               /\ task[i].copied = task[i].newAMI
               /\ task[i].copyId = CopyOf(task[i].newAMI)
        /\ task[i].copyId \in task[i].available =>
               Resource(task[i].copyId, "dest", NameOf(i)) \in task[i].tagged

\* C22 witness: two goroutines have gone through create, wait, tag, copy,
\* tag and wait, each with its own image and its own copy.
C22_Witness ==
    /\ DOMAIN task = InstanceIds
    /\ \A i \in DOMAIN task :
        /\ task[i].pc = "finished"
        /\ task[i].err = "none"
        /\ task[i].copied = NewImage(i)
        /\ task[i].available = {NewImage(i), CopyOf(NewImage(i))}

\* C23: a new image is tagged (hostname, instance, timestamp) on creation,
\* before the wait for it: whenever the run is cut short, every image a
\* goroutine has created without failing since carries its tags.
C23_TaggedOnCreation ==
    \A i \in DOMAIN task :
        (task[i].newAMI # "" /\ task[i].err = "none") =>
            Resource(task[i].newAMI, "source", NameOf(i)) \in task[i].tagged

\* C24: a goroutine whose CreateImage, CopyImage or CreateTags call failed
\* (the CreateTags for a snapshot included) has come to its end with the
\* error logged for its instance, and issues no further call.
C24_FailedCallEndsTask ==
    \A i \in DOMAIN task :
        task[i].failed \cap {"CreateImage", "CopyImage", "CreateTags"} # {} =>
            /\ task[i].pc \in {"send", "finished"}
            /\ task[i].err # "none"

\* C25: a failed poll of waitForAMI, for a new image or for a copy, ends
\* neither the goroutine nor the process: the goroutine stays in the same
\* wait for the same image, without error, and polls again, however many
\* polls have failed in a row.
C25_PollFailureRetried ==
    [][/\ \A i \in DOMAIN task :
             task'[i].failedPolls > task[i].failedPolls =>
                 /\ task[i].pc \in {"waitForAMI", "waitForCopy"}
                 /\ task'[i] = [task[i] EXCEPT !.failedPolls = @ + 1,
                                               !.ops = @ \cup {"DescribeImages"}]
                 /\ exitCode' = exitCode
       /\ \A i \in DOMAIN task' :
             task'[i].failedPolls > 0 =>
                 /\ task'[i].pc \in {"waitForAMI", "waitForCopy"}
                 /\ task'[i].err = "none"]_vars

\* C25 witness: one goroutine waits for its image and another for its copy,
\* each after as many failed polls in a row as the bound allows, and the
\* process runs.
C25_Witness ==
    /\ Running
    /\ \E i, j \in DOMAIN task :
        /\ task[i].pc = "waitForAMI" /\ task[i].failedPolls = MaxPollFailures
        /\ task[j].pc = "waitForCopy" /\ task[j].failedPolls = MaxPollFailures
        /\ task[j].newAMI \in task[j].available

\* The image a snapshot backs.
Backs(snap, id) == snap \in BlockDevices(id)

\* C26: for every image the purge deletes the calls come in this order: the
\* lookup of its snapshots, DeregisterImage, then DeleteSnapshot for the
\* snapshots found; no DeleteSnapshot is issued for a snapshot of an image
\* whose lookup or DeregisterImage failed, unless a later DeregisterImage of
\* that image succeeded.
C26_PurgeCallOrder ==
    \A k \in 1..Len(calls) :
        /\ calls[k].op = "DeregisterImage" =>
               /\ k > 1
               /\ calls[k - 1] = [calls[k] EXCEPT !.op = "DescribeImage", !.ok = TRUE]
        /\ calls[k].op = "DeleteSnapshot" =>
               /\ \E j \in 1..(k - 1) :
                      /\ calls[j].op = "DeregisterImage"
                      /\ calls[j].ok
                      /\ Backs(calls[k].id, calls[j].id)
                      /\ \A l \in (j + 1)..(k - 1) :
                             /\ calls[l].op = "DeleteSnapshot"
                             /\ calls[l].ok
                             /\ Backs(calls[l].id, calls[j].id)
                             /\ calls[l].id # calls[k].id
               /\ \A j \in 1..(k - 1) :
                      (/\ calls[j].op \in {"DescribeImage", "DeregisterImage"}
                       /\ ~calls[j].ok
                       /\ Backs(calls[k].id, calls[j].id))
                          => \E l \in (j + 1)..(k - 1) :
                                 /\ calls[l].op = "DeregisterImage"
                                 /\ calls[l].ok
                                 /\ calls[l].id = calls[j].id

\* C26 witness: the purge looked up, deregistered and then deleted both
\* snapshots of one image, and returned when DeregisterImage failed for the
\* next image, whose snapshot is still there.
C26_Witness ==
    /\ pc = "return"
    /\ err = "EC2 API DeregisterImage failed"
    /\ {"snap-b1", "snap-b2"} \cap snapshots = {}
    /\ "ami-b" \notin registered
    /\ calls[Len(calls)].id = "ami-a"
    /\ "snap-a" \in snapshots

\* C27: every window handleOptions has accepted has start < stop; it is
\* appended once, while the options are parsed, and is the same ever after.
C27_AcceptedWindowsOrdered ==
    \A i \in 1..Len(windows) : windows[i].start < windows[i].stop

\* main is inside a purgeAMIs call, or has just got its result.
PurgePhase ==
    /\ Len(windows) > 0
    /\ pc \in {"DescribeImages", "window", "slice", "item", "findSnapshots", "deregister",
               "deleteSnapshots", "return"}

\* C28: the deadline ends no run whose purge is still going on: the step
\* that writes the timeout line is never taken from inside the purge.
C28_NoTimeoutDuringPurge ==
    [][(~TimedOut /\ TimedOut') => ~PurgePhase]_vars

\* The calls purgeAMIs makes.
PurgeOps == {"DescribeImages", "DeregisterImage", "DeleteSnapshot"}

\* Some goroutine has called CreateImage.
CreateImageCalled == \E i \in DOMAIN task : "CreateImage" \in task[i].ops

\* C29: the purge is over before the first CreateImage: once an image has
\* been created main is outside purgeAMIs and no listing, DeregisterImage or
\* DeleteSnapshot call of the purge follows.
C29_PurgeBeforeCreate ==
    [][/\ CreateImageCalled' => ~PurgePhase'
       /\ CreateImageCalled =>
              \A k \in (Len(calls) + 1)..Len(calls') : calls'[k].op \notin PurgeOps]_vars

\* A run that has deregistered an image and deleted a snapshot, and then
\* created an image.
C29_Witness ==
    /\ CreateImageCalled
    /\ \E k \in 1..Len(calls) : calls[k].op = "DeregisterImage" /\ calls[k].ok
    /\ \E k \in 1..Len(calls) : calls[k].op = "DeleteSnapshot" /\ calls[k].ok

\* The DescribeImages calls of the purge of one name tag in one region, and
\* the purge listings that failed.
Listings(t, r) ==
    {k \in 1..Len(calls) :
        calls[k].op = "DescribeImages" /\ calls[k].tag = t /\ calls[k].region = r}
FailedListings == {k \in 1..Len(calls) : calls[k].op = "DescribeImages" /\ ~calls[k].ok}

\* main has left the purge loop and the watchdog has not ended the run.
PurgeLoopOver == pc \notin {"main", "handleOptions", "kms", "purge"} /\ ~PurgePhase /\ ~TimedOut

\* C30: a listing that fails ends its own purgeAMIs call and nothing else:
\* no other purge call is made for that name tag and region, main logs the
\* error once the call has returned, the process does not exit because of
\* it, and when the purge loop is over every name tag has had its one
\* listing in every region.
C30_ListingFailureIsLocal ==
    /\ \A k \in FailedListings :
          /\ \A j \in 1..Len(calls) :
                (calls[j].op \in PurgeOps /\ calls[j].tag = calls[k].tag
                                          /\ calls[j].region = calls[k].region) => j = k
          /\ \/ k = Len(calls) /\ (pc = "return" \/ TimedOut)
             \/ \E l \in 1..Len(logs) :
                   /\ logs[l].msg = "Error purging old AMIs"
                   /\ logs[l].tag = calls[k].tag /\ logs[l].region = calls[k].region
    /\ (exitCode = FatalfStatus /\ ~TimedOut) => "DescribeInstances" \in CallOps
    /\ (PurgeLoopOver /\ Len(windows) > 0) =>
          \A t \in 1..Len(cfg.instanceNameTags) : \A r \in Regions :
              Cardinality(Listings(cfg.instanceNameTags[t], r)) = 1

\* The listing of the source region failed, the purge of the other region
\* deregistered an image, and a goroutine has created an image since.
C30_Witness ==
    /\ \E k \in FailedListings : calls[k].region = "source"
    /\ \E k \in 1..Len(calls) :
          calls[k].op = "DeregisterImage" /\ calls[k].ok /\ calls[k].region = "dest"
    /\ "Error purging old AMIs" \in LoggedMsgs
    /\ CreateImageCalled

\* C31: no image and no snapshot gets a mutating call (create, copy, tag)
\* from two goroutines: what one goroutine created, copied or tagged, no
\* other goroutine created, copied or tagged.
C31_TasksOwnDisjointResources ==
    \A i, j \in DOMAIN task :
        i # j =>
            /\ task[i].tagged \cap task[j].tagged = {}
            /\ {task[i].newAMI, task[i].copyId} \cap {task[j].newAMI, task[j].copyId} \subseteq {""}

\* The image EC2 named first in the description of a snapshot: the image
\* the snapshot was made for; none for a snapshot its owner described.
FirstNamed(snap) ==
    CASE snap = "snap-a"  -> "ami-a"
      [] snap = "snap-b1" -> "ami-b"
      [] snap = "snap-1"  -> "ami-1"
      [] snap = "snap-2"  -> "ami-2"
      [] snap = "snap-3"  -> "ami-3"
      [] snap = "snap-1c" -> "ami-1c"
      [] snap = "snap-2c" -> "ami-2c"
      [] snap = "snap-3c" -> "ami-3c"
      [] OTHER            -> ""

\* The snapshots a goroutine has called CreateTags on.
TaggedSnapshots(i) == {x \in task[i].tagged : x.id \notin {task[i].newAMI, task[i].copyId}}

\* C32: a snapshot is tagged only with the tags of the image its
\* description names first, and only when findAMIs listed that image; a
\* snapshot whose description names no image, or names first an image that
\* was not listed, gets no tags.
C32_FirstMatchOnly ==
    \A i \in DOMAIN task :
        /\ \A x \in TaggedSnapshots(i) : \E p \in task[i].propagated : p.snap = x
        /\ \A p \in task[i].propagated :
              /\ p.snap \in TaggedSnapshots(i)
              /\ p.ami \in task[i].amis
              /\ p.ami.id = FirstNamed(p.snap.id)
              /\ p.ami.region = p.snap.region
              /\ \A q \in task[i].propagated : q.snap = p.snap => q.ami = p.ami

\* The purge deregistered ami-a and failed to delete its snapshot snap-a.
\* The goroutine has passed the tags of ami-b, named first in the description
\* of snap-b1, on to snap-b1, and has left alone snap-a, whose image is no
\* longer listed, and snap-b2, whose description names no image.
C32_Witness ==
    \E i \in DOMAIN task :
        LET Here(id) == Resource(id, "source", NameOf(i))
        IN  /\ task[i].pc = "send"
            /\ Here("ami-a") \notin task[i].amis
            /\ {Here("snap-a"), Here("snap-b2")} \subseteq DescribeSnapshots(NameOf(i), "source")
            /\ Here("snap-a") \notin task[i].tagged
            /\ Here("snap-b2") \notin task[i].tagged
            /\ [snap |-> Here("snap-b1"), ami |-> Here("ami-b")] \in task[i].propagated

\* The DeregisterImage calls the walk of window i made for one image.
DeregisterCalls(i, id) ==
    {k \in 1..Len(calls) :
        calls[k].op = "DeregisterImage" /\ calls[k].id = id /\ calls[k].w = i}

\* C33: the slices of one window do not overlap and none reaches beyond
\* stop: no instant and no image lies in two slices of the window, the walk
\* works on the slices that start at start, start + interval, ..., and the
\* walk of one window calls DeregisterImage at most once for an image.
C33_SlicesDisjoint ==
    \A i \in 1..Len(windows) :
        /\ \A c \in Cursors(windows[i]) : CursorEnd(c, windows[i]) <= windows[i].stop
        /\ \A c, d \in Cursors(windows[i]) : \A t \in 0..Now :
              (InSlice(t, c, CursorEnd(c, windows[i])) /\ InSlice(t, d, CursorEnd(d, windows[i])))
                  => c = d
        /\ (w = i /\ pc \in {"item", "findSnapshots", "deregister", "deleteSnapshots"})
              => cursor \in Cursors(windows[i])
        /\ \A id \in DOMAIN images :
              /\ Cardinality({c \in Cursors(windows[i]) :
                     InSlice(images[id], c, CursorEnd(c, windows[i]))}) <= 1
              /\ Cardinality(DeregisterCalls(i, id)) <= 1

\* A finished purge with a window of several slices, the last one cut off at
\* stop, whose walk deregistered an image.
C33_Witness ==
    /\ pc = "return"
    /\ err = "none"
    /\ \E i \in 1..Len(windows) :
          /\ Cardinality(Cursors(windows[i])) >= 2
          /\ (windows[i].stop - windows[i].start) % windows[i].interval # 0
          /\ \E id \in DOMAIN images : DeregisterCalls(i, id) # {}

\* C34: whatever windows handleOptions accepted and returned to main, the
\* walk of purgeAMIs comes to its end: purgeAMIs returns.
C34_WalkTerminates == (pc = "main") ~> (pc = "return")

\* The timestamp tags the goroutines of this run have written.
Stamps == UNION {task[i].stamps : i \in DOMAIN task}

\* C35: every image and every copy the run has tagged carries the same
\* timestamp, the seconds of the moment the process started, whenever the
\* CreateTags call was made.
C35_OneTimestamp ==
    \A p \in Stamps :
        /\ p.timestamp = FormatInt(Now)
        /\ \A q \in Stamps : q.timestamp = p.timestamp

\* Time has gone by since the start and two goroutines have each tagged
\* their image and its copy in the other region.
C35_Witness ==
    /\ elapsed > 0
    /\ \E i, j \in DOMAIN task :
          /\ i # j
          /\ \A k \in {i, j} :
                /\ Stamp(task[k].newAMI, "source", NameOf(k)) \in task[k].stamps
                /\ Stamp(task[k].copyId, "dest", NameOf(k)) \in task[k].stamps
                /\ task[k].copyId # ""

\* The images of the listing that are still registered and lie in the slice
\* purgeAMIs takes at cursor c of a window.
Remaining(c, window) ==
    {id \in registered : HasTime(id) /\ InSlice(TimeOf(id), c, CursorEnd(c, window))}

\* C36: the images of a name tag compete by slice whatever instance they
\* are backups of: after a purge without API failure no slice the walk took
\* holds more than one image of the listing, and the image left is never
\* newer than an image of the slice that was purged.
C36_OneSurvivorPerNameTag ==
    (pc = "return" /\ err = "none" /\ Mutating /\ run = "first") =>
        \A i \in 1..Len(windows) : \A c \in Cursors(windows[i]) :
            /\ Cardinality(Remaining(c, windows[i])) <= 1
            /\ \A id \in Remaining(c, windows[i]) : \A m \in SelectedIn(i, c) :
                  TimeOf(id) <= TimeOf(m)

\* A finished purge that found backups of two instances in one slice and
\* left one image there.
C36_Witness ==
    /\ pc = "return" /\ err = "none" /\ Mutating /\ run = "first"
    /\ \E i \in 1..Len(windows) : \E c \in Cursors(windows[i]) :
          /\ Cardinality(Remaining(c, windows[i])) = 1
          /\ \E id \in Remaining(c, windows[i]) : \E m \in SelectedIn(i, c) :
                InstanceTag(id) # InstanceTag(m)

\* C37: a dry run depends on no image becoming available: no goroutine of
\* a dry run is in waitForAMI for an image that was never created.
C37_DryRunWaitsForNothing ==
    dryRun => \A i \in DOMAIN task : task[i].pc = "waitForAMI" => task[i].newAMI # ""

\* The image a goroutine in waitForAMI is waiting for.
Awaited(t) == IF t.pc = "waitForAMI" THEN t.newAMI ELSE t.copyId

\* C38: a goroutine leaves waitForAMI only with the image seen available and
\* without an error, never towards its end; and a run that has ended with a
\* goroutine still waiting was ended by the watchdog.
C38_WaitLeftOnlyWhenAvailable ==
    [][/\ \A i \in DOMAIN task :
             (task[i].pc \in {"waitForAMI", "waitForCopy"} /\ task'[i].pc # task[i].pc) =>
                 /\ Awaited(task[i]) \in task'[i].available
                 /\ task'[i].err = "none"
                 /\ task'[i].pc = IF task[i].pc = "waitForAMI" THEN "tagAMI" ELSE "findTag"
       /\ (pc' = "exit" /\ \E i \in DOMAIN task' : task'[i].pc \in {"waitForAMI", "waitForCopy"})
             => TimedOut']_vars

\* A goroutine saw its image available, copied it and polled for the copy,
\* which did not become available; the watchdog ended the run.
C38_Witness ==
    /\ TimedOut
    /\ ~dryRun
    /\ \E i \in DOMAIN task :
          /\ task[i].pc = "waitForCopy"
          /\ task[i].newAMI \in task[i].available
          /\ task[i].copyId \notin task[i].available
          /\ task[i].failedPolls > 0

\* A name tag of the command line that no instance carries.
UnmatchedNameTag ==
    \E k \in 1..Len(cfg.instanceNameTags) : findInstances(cfg.instanceNameTags[k]) = {}

\* A DescribeInstances call of findInstances failed.
InstanceListingFailed ==
    \E k \in 1..Len(calls) : calls[k].op = "DescribeInstances" /\ ~calls[k].ok

\* C39: when some name tag matches no instance, or a DescribeInstances call
\* has failed, no goroutine is ever started and no CreateImage is called,
\* for any name tag; the failed lookup ends the process with log.Fatalf.
C39_AbortBeforeAnyTask ==
    /\ (UnmatchedNameTag \/ InstanceListingFailed) =>
          /\ DOMAIN task = {}
          /\ started = 0
          /\ pc \notin {"go", "join"}
    /\ InstanceListingFailed => pc = "exit" /\ exitCode = FatalfStatus
    /\ (UnmatchedNameTag /\ pc = "exit" /\ ~TimedOut /\ ~cfg.purgeonly) =>
          /\ exitCode = FatalfStatus
          /\ \/ InstanceListingFailed
             \/ "No instances with matching name tag" \in LoggedMsgs

\* The lookup for the first name tag found instances, the one for the second
\* found none, and the process has exited without starting a goroutine.
C39_Witness ==
    /\ Len(cfg.instanceNameTags) = 2
    /\ instanceset # {}
    /\ findInstances(cfg.instanceNameTags[2]) = {}
    /\ "No instances with matching name tag" \in LoggedMsgs
    /\ exitCode = FatalfStatus
    /\ DOMAIN task = {}

====
